---- MODULE Spec2Model ----
(***************************************************************************)
(* Reversible LSB watermarking service (src/main.py): POST /secure embeds  *)
(* the SHA-256 digest of the pixel data into the LSBs of the first 256     *)
(* pixels and appends the original LSBs as a 32-byte trailer; POST         *)
(* /authenticate splits the trailer, restores the pixels, recomputes the   *)
(* digest and compares it with the embedded bits.                          *)
(*                                                                         *)
(* Bytes are sequences of 0..255.  A numpy array of shape (h, w, 3) is the *)
(* record [h, w, px] with px the row-major sequence of <<r, g, b>>.        *)
(***************************************************************************)
EXTENDS Integers, Sequences, FiniteSets, TLC

\* ---------------------------------------------------------------- constants
HASH_BITS == 256
NUM_PIXELS == HASH_BITS
APPENDED_BYTES == HASH_BITS \div 8
MIN_BITS == 6144
MIN_BYTES == MIN_BITS \div 8

\* ------------------------------------------------------------------- bounds
\* pixel patterns 0..MaxSeed, image sides MinSide..MaxSide
MaxSeed == 3
MinSide == 15
MaxSide == 17

\* ------------------------------------------------------------- bit codec
\* a faulty variant of GroupStarts: range(0, len(bit_list) - 7, 8), complete groups only
GroupStartsComplete(n) == {i \in 0..(n - 1) : i % 8 = 0 /\ i + 7 < n}

\* range(0, len(bit_list), 8): the start index (0-based) of every group
GroupStarts(n) == {i \in 0..(n - 1) : i % 8 = 0}

\* bit_list[i + j] for j in 0..7 raises IndexError when i + j >= len(bit_list)
PackFails(bit_list) ==
    \E i \in GroupStarts(Len(bit_list)) : i + 7 >= Len(bit_list)

\* a faulty variant of PackByte: the first bit of a group lands in bit 0
PackByteLsbFirst(bit_list, i) ==
    bit_list[i + 1] + bit_list[i + 2] * 2 + bit_list[i + 3] * 4
    + bit_list[i + 4] * 8 + bit_list[i + 5] * 16 + bit_list[i + 6] * 32
    + bit_list[i + 7] * 64 + bit_list[i + 8] * 128

\* one byte of pack_bits_to_bytes: byte = (byte << 1) | bit, for j = 0..7
PackByte(bit_list, i) ==
    bit_list[i + 1] * 128 + bit_list[i + 2] * 64 + bit_list[i + 3] * 32
    + bit_list[i + 4] * 16 + bit_list[i + 5] * 8 + bit_list[i + 6] * 4
    + bit_list[i + 7] * 2 + bit_list[i + 8]

\* the bytes appended when no group raises (one per group start)
PackBytes(bit_list) ==
    [k \in 1..Cardinality(GroupStarts(Len(bit_list))) |->
        PackByte(bit_list, 8 * (k - 1))]

\* pack_bits_to_bytes: the returned bytes, or the IndexError
pack_bits_to_bytes(bit_list) ==
    IF PackFails(bit_list)
    THEN [ok |-> FALSE, bytes |-> <<>>]
    ELSE [ok |-> TRUE, bytes |-> PackBytes(bit_list)]

\* (byte >> i) & 1
BitOf(byte, i) == (byte \div (2 ^ i)) % 2

\* the bits of all bytes, for i in reversed(range(8)) within each byte
AllBits(bts) ==
    [k \in 1..(8 * Len(bts)) |-> BitOf(bts[((k - 1) \div 8) + 1], 7 - ((k - 1) % 8))]

\* bits[:expected_bits]
Take(s, n) == IF n >= Len(s) THEN s ELSE SubSeq(s, 1, n)

\* unpack_bytes_to_bits(bts, expected_bits)
unpack_bytes_to_bits(bts, expected_bits) == Take(AllBits(bts), expected_bits)

\* ------------------------------------------------------- pixel <-> integer
\* val = (r << 16) | (g << 8) | b
Fold(p) == p[1] * 65536 + p[2] * 256 + p[3]

\* [(v >> 16) & 0xFF, (v >> 8) & 0xFF, v & 0xFF]
Unfold(v) == <<(v \div 65536) % 256, (v \div 256) % 256, v % 256>>

\* val & 1
Lsb(p) == Fold(p) % 2

\* a faulty variant of SetLsb: the mask clears the whole blue channel, (val & ~0xFF) | bit
SetLsbWideMask(p, bit) == Unfold((Fold(p) - (Fold(p) % 256)) + bit)

\* new_val = (val & ~1) | bit, written back to the pixel
SetLsb(p, bit) == Unfold((Fold(p) - (Fold(p) % 2)) + bit)

\* ---------------------------------------------------------------- digest
\* arr.tobytes(): row-major, channels R, G, B within each pixel
ToBytes(px) ==
    [k \in 1..(3 * Len(px)) |-> px[((k - 1) \div 3) + 1][((k - 1) % 3) + 1]]

HashModulus == 65521

\* position-weighted sum of the bytes of b[lo..hi] modulo HashModulus
RECURSIVE WeightedSum(_, _, _)
WeightedSum(b, lo, hi) ==
    IF lo > hi THEN 0
    ELSE IF lo = hi THEN ((b[lo] + 1) * ((lo % 65520) + 1)) % HashModulus
    ELSE LET mid == (lo + hi) \div 2
         IN  (WeightedSum(b, lo, mid) + WeightedSum(b, mid + 1, hi)) % HashModulus

\* hashlib.sha256(bytes).digest(): 32 bytes, a deterministic function of the
\* bytes alone.  The arithmetic stands for SHA-256: every byte and its
\* position enter the state, and the state determines the digest.
Sha256Digest(b) ==
    LET st == (WeightedSum(b, 1, Len(b)) + 7 * Len(b)) % HashModulus
    IN  [k \in 1..APPENDED_BYTES |->
            IF k = 1 THEN st \div 256
            ELSE IF k = 2 THEN st % 256
            ELSE (((st * (17 * k + 3)) % HashModulus) + k) % 256]

\* ------------------------------------------------------- image container
\* The container handled by PIL is modelled as a lossless run-length format:
\*   <<137, fmt, h, w, metaHi, metaLo>> ++ metadata ++ runs,
\* a run being <<countHi, countLo, r, g, b>>.  Its length depends on the
\* pixel values and on the metadata, not on the pixel count alone.
HeaderLen == 6
RunLen == 5
Magic == 137
Formats == <<"PNG", "BMP">>

\* the runs <<count, pixel>> of px[lo..hi], by halves: the last run of the
\* left half and the first of the right are joined when their pixels agree
RECURSIVE Runs(_, _, _)
Runs(px, lo, hi) ==
    IF lo = hi THEN << <<1, px[lo]>> >>
    ELSE LET mid == (lo + hi) \div 2
             L == Runs(px, lo, mid)
             R == Runs(px, mid + 1, hi)
             a == L[Len(L)]
             b == R[1]
         IN  IF a[2] = b[2]
             THEN SubSeq(L, 1, Len(L) - 1) \o << <<a[1] + b[1], a[2]>> >> \o Tail(R)
             ELSE L \o R

\* run-length encoding of a pixel sequence
EncodeRuns(px) ==
    LET runs == IF Len(px) = 0 THEN <<>> ELSE Runs(px, 1, Len(px))
        field(run, f) ==
            IF f = 0 THEN run[1] \div 256
            ELSE IF f = 1 THEN run[1] % 256
            ELSE run[2][f - 1]
    IN  [j \in 1..(RunLen * Len(runs)) |->
            field(runs[((j - 1) \div RunLen) + 1], (j - 1) % RunLen)]

FmtCode(fmt) == CHOOSE c \in 1..Len(Formats) : Formats[c] = fmt

\* the container bytes of an array with `meta` bytes of metadata
Container(arr, fmt, meta) ==
    <<Magic, FmtCode(fmt), arr.h, arr.w, meta \div 256, meta % 256>>
    \o [k \in 1..meta |-> 0]
    \o EncodeRuns(arr.px)

\* rgb_array_to_image_bytes: Image.fromarray(...).save(buf, format=fmt);
\* the saved file carries no metadata
rgb_array_to_image_bytes(arr, fmt) == Container(arr, fmt, 0)

\* the count of run k of the runs that start at byte `base`
RunCount(b, base, k) ==
    b[base + RunLen * (k - 1)] * 256 + b[base + RunLen * (k - 1) + 1]

\* the pixel of run k
RunPixel(b, base, k) ==
    LET pos == base + RunLen * (k - 1)
    IN  <<b[pos + 2], b[pos + 3], b[pos + 4]>>

\* the pixels covered by runs lo..hi together
RECURSIVE CountSum(_, _, _, _)
CountSum(b, base, lo, hi) ==
    IF lo > hi THEN 0
    ELSE IF lo = hi THEN RunCount(b, base, lo)
    ELSE LET mid == (lo + hi) \div 2
         IN  CountSum(b, base, lo, mid) + CountSum(b, base, mid + 1, hi)

\* the number of leading runs that cover exactly `need` pixels, each run
\* holding at least one; 0 when the data ends first or a run overshoots
\* (the bisection relies on the running total growing with every run)
RECURSIVE RunsNeeded(_, _, _, _, _)
RunsNeeded(b, base, lo, hi, need) ==
    IF lo > hi THEN 0
    ELSE IF lo = hi
         THEN IF CountSum(b, base, 1, lo) = need THEN lo ELSE 0
    ELSE LET mid == (lo + hi) \div 2
         IN  IF CountSum(b, base, 1, mid) >= need
             THEN RunsNeeded(b, base, lo, mid, need)
             ELSE RunsNeeded(b, base, mid + 1, hi, need)

\* the complete runs present from byte `base`, at most one per pixel
RunsPresent(b, base, need) ==
    LET have == IF Len(b) < base THEN 0 ELSE (Len(b) - base + 1) \div RunLen
    IN  IF have < need THEN have ELSE need

\* the pixels of runs lo..hi
RECURSIVE ExpandRuns(_, _, _, _)
ExpandRuns(b, base, lo, hi) ==
    IF lo > hi THEN <<>>
    ELSE IF lo = hi
         THEN [i \in 1..RunCount(b, base, lo) |-> RunPixel(b, base, lo)]
    ELSE LET mid == (lo + hi) \div 2
         IN  ExpandRuns(b, base, lo, mid) \o ExpandRuns(b, base, mid + 1, hi)

\* where the runs start: after the header and the metadata
RunsBase(b) == HeaderLen + b[5] * 256 + b[6] + 1

\* the runs that make up the image, 0 when the file is damaged
ImageRuns(b) ==
    LET base == RunsBase(b)
        have == RunsPresent(b, base, b[3] * b[4])
        k == RunsNeeded(b, base, 1, have, b[3] * b[4])
    IN  IF k > 0 /\ \A j \in 1..k : RunCount(b, base, j) >= 1 THEN k ELSE 0

\* whether Image.open(...).convert("RGB") succeeds on these bytes
Decodable(b) ==
    /\ Len(b) >= HeaderLen
    /\ b[1] = Magic
    /\ b[2] \in 1..Len(Formats)
    /\ b[3] >= 1 /\ b[4] >= 1
    /\ ImageRuns(b) > 0

\* image_bytes_to_rgb_array: the array and the source format; bytes after
\* the image data are ignored
image_bytes_to_rgb_array(b) ==
    [arr |-> [h |-> b[3], w |-> b[4],
              px |-> ExpandRuns(b, RunsBase(b), 1, ImageRuns(b))],
     fmt |-> Formats[b[2]]]

\* --------------------------------------------------------- per-pixel loops
\* a faulty variant of EmbedStep: the LSB is read after the pixel was overwritten
EmbedStepLate(p, bit) == [lsb |-> Lsb(SetLsb(p, bit)), pixel |-> SetLsb(p, bit)]

\* one iteration of the embed loop of secure_image: the LSB recorded and the
\* pixel written back
EmbedStep(p, bit) == [lsb |-> Lsb(p), pixel |-> SetLsb(p, bit)]

\* original_lsb_bits after the loop over range(NUM_PIXELS)
RecordedLsbs(flat, digest_bits) ==
    [i \in 1..NUM_PIXELS |-> EmbedStep(flat[i], digest_bits[i]).lsb]

\* flat after the loop over range(NUM_PIXELS)
EmbedLoop(flat, digest_bits) ==
    [i \in 1..Len(flat) |->
        IF i <= NUM_PIXELS THEN EmbedStep(flat[i], digest_bits[i]).pixel ELSE flat[i]]

\* embedded_bits: val & 1 of each of the first NUM_PIXELS pixels
ExtractLoop(flat) == [i \in 1..NUM_PIXELS |-> Lsb(flat[i])]

\* a faulty variant of RestoreLoop: the restore loop is skipped
RestoreLoopSkipped(flat, original_bits) == flat

\* flat after the restore loop of authenticate_image
RestoreLoop(flat, original_bits) ==
    [i \in 1..Len(flat) |->
        IF i <= NUM_PIXELS THEN SetLsb(flat[i], original_bits[i]) ELSE flat[i]]

\* ------------------------------------------------------------- responses
NoArr == [h |-> 0, w |-> 0, px |-> <<>>]

\* a faulty variant of TooSmall: len(data) <= minimum
TooSmallInclusive(data, minimum) == Len(data) <= minimum

\* len(data) < minimum
TooSmall(data, minimum) == Len(data) < minimum

\* the response of /secure; arr, new_arr, original_lsb_bits and digest_bits
\* are the handler's locals, kept for the properties
SecureError(status, error, decoded) ==
    [status |-> status, error |-> error, decoded |-> decoded, body |-> <<>>,
     image_len |-> 0, arr |-> NoArr, new_arr |-> NoArr, fmt |-> "",
     original_lsb_bits |-> <<>>, digest_bits |-> <<>>]

\* secure_image
SecureResponse(data) ==
    IF TooSmall(data, MIN_BYTES)
    THEN SecureError(400, "ImageTooSmall", FALSE)
    ELSE IF ~Decodable(data)
    THEN SecureError(500, "DecodeError", TRUE)
    ELSE
      LET d == image_bytes_to_rgb_array(data)
          flat == d.arr.px
      IN  IF Len(flat) < NUM_PIXELS
          THEN SecureError(500, "IndexError", TRUE)
          ELSE
            LET digest_bits == unpack_bytes_to_bits(Sha256Digest(ToBytes(flat)), HASH_BITS)
                original_lsb_bits == RecordedLsbs(flat, digest_bits)
                new_arr == [h |-> d.arr.h, w |-> d.arr.w,
                            px |-> EmbedLoop(flat, digest_bits)]
                new_image_bytes == rgb_array_to_image_bytes(new_arr, d.fmt)
                appended_bytes == pack_bits_to_bytes(original_lsb_bits)
            IN  IF ~appended_bytes.ok
                THEN SecureError(500, "IndexError", TRUE)
                ELSE [status |-> 200, error |-> "", decoded |-> TRUE,
                      body |-> new_image_bytes \o appended_bytes.bytes,
                      image_len |-> Len(new_image_bytes),
                      arr |-> d.arr, new_arr |-> new_arr, fmt |-> d.fmt,
                      original_lsb_bits |-> original_lsb_bits,
                      digest_bits |-> digest_bits]

\* data[-APPENDED_BYTES:]
SplitAppended(data) ==
    IF Len(data) <= APPENDED_BYTES THEN data
    ELSE SubSeq(data, Len(data) - APPENDED_BYTES + 1, Len(data))

\* data[:-APPENDED_BYTES]
SplitImage(data) ==
    IF Len(data) <= APPENDED_BYTES THEN <<>>
    ELSE SubSeq(data, 1, Len(data) - APPENDED_BYTES)

\* sum(1 for a, b in zip(computed_bits, embedded_bits) if a == b)
MatchCount(computed_bits, embedded_bits) ==
    LET n == IF Len(computed_bits) < Len(embedded_bits)
             THEN Len(computed_bits) ELSE Len(embedded_bits)
    IN  Cardinality({i \in 1..n : computed_bits[i] = embedded_bits[i]})

\* a faulty variant of RoundedPercent: round(..., 0), whole percents
RoundedWhole(match_count) ==
    LET num == match_count * 100
        q == num \div HASH_BITS
        r == num % HASH_BITS
    IN  100 * (IF 2 * r > HASH_BITS \/ (2 * r = HASH_BITS /\ q % 2 = 1) THEN q + 1 ELSE q)

\* round((match_count / HASH_BITS) * 100, 2), in hundredths of a percent;
\* the quotient is exact in binary floating point and round() takes an exact
\* tie to the even neighbour
RoundedPercent(match_count) ==
    LET num == match_count * 10000
        q == num \div HASH_BITS
        r == num % HASH_BITS
    IN  IF 2 * r > HASH_BITS \/ (2 * r = HASH_BITS /\ q % 2 = 1) THEN q + 1 ELSE q

\* computed_bits == embedded_bits
BitsEqual(computed_bits, embedded_bits) == computed_bits = embedded_bits

AuthError(status, error, decoded) ==
    [status |-> status, error |-> error, decoded |-> decoded, authentic |-> FALSE,
     message |-> "", authentication_percentage |-> 0, restored_image_bytes |-> <<>>,
     flat |-> <<>>, restored |-> <<>>, embedded_bits |-> <<>>, original_bits |-> <<>>,
     computed_bits |-> <<>>, match_count |-> 0]

\* authenticate_image
AuthResponse(data) ==
    IF TooSmall(data, MIN_BYTES + APPENDED_BYTES)
    THEN AuthError(400, "ImageTooSmall", FALSE)
    ELSE
      LET appended == SplitAppended(data)
          image_bytes == SplitImage(data)
      IN  IF ~Decodable(image_bytes)
          THEN AuthError(400, "InvalidImage", TRUE)
          ELSE
            LET d == image_bytes_to_rgb_array(image_bytes)
                flat == d.arr.px
            IN  IF Len(flat) < NUM_PIXELS
                THEN AuthError(500, "IndexError", TRUE)
                ELSE
                  LET embedded_bits == ExtractLoop(flat)
                      original_bits == unpack_bytes_to_bits(appended, HASH_BITS)
                      restored == RestoreLoop(flat, original_bits)
                      restored_arr == [h |-> d.arr.h, w |-> d.arr.w, px |-> restored]
                      computed_bits ==
                          unpack_bytes_to_bits(Sha256Digest(ToBytes(restored)), HASH_BITS)
                      match_count == MatchCount(computed_bits, embedded_bits)
                      authentic == BitsEqual(computed_bits, embedded_bits)
                  IN  [status |-> 200, error |-> "", decoded |-> TRUE,
                       authentic |-> authentic,
                       message |-> IF authentic THEN "Image authentic (untampered)."
                                   ELSE "Image tampered / altered.",
                       authentication_percentage |-> RoundedPercent(match_count),
                       restored_image_bytes |-> rgb_array_to_image_bytes(restored_arr, d.fmt),
                       flat |-> flat, restored |-> restored,
                       embedded_bits |-> embedded_bits, original_bits |-> original_bits,
                       computed_bits |-> computed_bits, match_count |-> match_count]

\* -------------------------------------------------------------- clients
\* pixel i (0-based) of pattern `seed`: pattern 0 is a solid colour, the
\* others vary from pixel to pixel
Pixel(seed, i) ==
    <<(seed * 51) % 256, (i * seed) % 256, (seed + 254 + i * (seed \div 2)) % 256>>

Grid(h, w, seed) == [h |-> h, w |-> w, px |-> [i \in 1..(h * w) |-> Pixel(seed, i - 1)]]

Sides == MinSide..MaxSide
Shapes == {s \in Sides \X Sides : s[1] <= s[2]}
Seeds == 0..MaxSeed

Zeros(n) == [k \in 1..n |-> 0]

\* file lengths around the threshold of /secure, reached by metadata
TargetLens == {MIN_BYTES - 1, MIN_BYTES}

\* image files a client may upload: each grid without metadata and with the
\* metadata that brings the file to a target length
ImageFiles ==
    UNION {
        LET g == Grid(s[1], s[2], seed)
            fmt == Formats[(seed % 2) + 1]
            base == Len(Container(g, fmt, 0))
        IN  {Container(g, fmt, m) :
                m \in {0} \cup {L - base : L \in {T \in TargetLens : T >= base}}}
        : s \in Shapes, seed \in Seeds}

\* files that are no image
OtherFiles == {Zeros(L) : L \in TargetLens}

\* value v with bit `bit` flipped
FlipBit(v, bit) == IF BitOf(v, bit) = 1 THEN v - 2 ^ bit ELSE v + 2 ^ bit

\* px with bit `bit` of channel c of pixel i flipped
FlipPixelBit(px, i, c, bit) ==
    [px EXCEPT ![i] = [@ EXCEPT ![c] = FlipBit(@, bit)]]

\* a secured buffer whose image has one bit flipped, the trailer kept
TamperedBuffer(body, i, c, bit) ==
    LET d == image_bytes_to_rgb_array(SplitImage(body))
        arr == [h |-> d.arr.h, w |-> d.arr.w, px |-> FlipPixelBit(d.arr.px, i, c, bit)]
    IN  Container(arr, d.fmt, 0) \o SplitAppended(body)

\* metadata that brings a container of length `base` to MIN_BYTES at least
Padding(base) == IF base >= MIN_BYTES THEN 0 ELSE MIN_BYTES - base

\* a buffer built from a secured one by an attacker: the image is restored,
\* pixel i is replaced, and digest and trailer are recomputed for the result
ForgedBuffer(body, i) ==
    LET d == image_bytes_to_rgb_array(SplitImage(body))
        original == RestoreLoop(d.arr.px,
                                unpack_bytes_to_bits(SplitAppended(body), HASH_BITS))
        changed == [original EXCEPT ![i] = [@ EXCEPT ![1] = (@ + 128) % 256]]
        bits == unpack_bytes_to_bits(Sha256Digest(ToBytes(changed)), HASH_BITS)
        arr == [h |-> d.arr.h, w |-> d.arr.w, px |-> EmbedLoop(changed, bits)]
        base == Len(Container(arr, d.fmt, 0))
    IN  Container(arr, d.fmt, Padding(base))
        \o pack_bits_to_bytes(RecordedLsbs(changed, bits)).bytes

\* ------------------------------------------------------------------ state
VARIABLES
    phase,      \* "start", "secured", "posted", "done"; "pack" in SpecPack
    upload,     \* the file posted to /secure
    sec,        \* the response of /secure
    how,        \* how the client obtained the buffer it posts to /authenticate
    posted,     \* the file posted to /authenticate
    auth,       \* the response of /authenticate
    bit_list,   \* SpecPack: the argument of pack_bits_to_bytes
    packed      \* SpecPack: its result

vars == <<phase, upload, sec, how, posted, auth, bit_list, packed>>

NotPacked == [done |-> FALSE, ok |-> FALSE, bytes |-> <<>>]

Init ==
    /\ phase = "start"
    /\ upload \in ImageFiles \cup OtherFiles
    /\ sec = SecureError(0, "", FALSE)
    /\ how = "none"
    /\ posted = <<>>
    /\ auth = AuthError(0, "", FALSE)
    /\ bit_list = <<>>
    /\ packed = NotPacked

\* POST /secure
Secure ==
    /\ phase = "start"
    /\ sec' = SecureResponse(upload)
    /\ phase' = "secured"
    /\ UNCHANGED <<upload, how, posted, auth, bit_list, packed>>

Post(buffer, kind) ==
    /\ phase = "secured"
    /\ posted' = buffer
    /\ how' = kind
    /\ phase' = "posted"
    /\ UNCHANGED <<upload, sec, auth, bit_list, packed>>

\* the client sends the secured buffer on as it is
Forward ==
    /\ sec.status = 200
    /\ Post(sec.body, "forward")

\* the client flips one non-LSB bit of one channel of a pixel beyond the
\* first NUM_PIXELS
Tamper ==
    /\ sec.status = 200
    /\ Len(sec.new_arr.px) > NUM_PIXELS
    /\ \E i \in {NUM_PIXELS + 1, Len(sec.new_arr.px)}, c \in {1, 3}, bit \in {1, 7} :
          Post(TamperedBuffer(sec.body, i, c, bit), "tamper")

\* the client flips the embedded LSB of one of the first NUM_PIXELS pixels
TamperEmbedded ==
    /\ sec.status = 200
    /\ \E i \in {1, NUM_PIXELS} : Post(TamperedBuffer(sec.body, i, 3, 0), "lsb")

\* the client replaces a pixel and recomputes digest and trailer
Forge ==
    /\ sec.status = 200
    /\ \E i \in {1, Len(sec.new_arr.px)} : Post(ForgedBuffer(sec.body, i), "forge")

\* the client posts its own file with k bytes appended
PostOther ==
    /\ phase = "secured"
    /\ \E k \in {APPENDED_BYTES - 1, APPENDED_BYTES} : Post(upload \o Zeros(k), "other")

\* POST /authenticate
Authenticate ==
    /\ phase = "posted"
    /\ auth' = AuthResponse(posted)
    /\ phase' = "done"
    /\ UNCHANGED <<upload, sec, how, posted, bit_list, packed>>

Next ==
    \/ Secure
    \/ Forward
    \/ Tamper
    \/ TamperEmbedded
    \/ Forge
    \/ PostOther
    \/ Authenticate

Spec == Init /\ [][Next]_vars

\* ------------------------------------------------- pack_bits_to_bytes alone
MaxTail == 9

\* all bit sequences of length n
BitSeqs(n) == [1..n -> {0, 1}]

\* zero, one or two whole bytes of bits before the enumerated tail
Heads == {<<>>, <<1, 0, 1, 1, 0, 0, 1, 0>>,
          <<0, 1, 1, 1, 1, 1, 1, 1, 1, 0, 0, 0, 0, 0, 0, 1>>}

InitPack ==
    /\ phase = "pack"
    /\ upload = <<>>
    /\ sec = SecureError(0, "", FALSE)
    /\ how = "none"
    /\ posted = <<>>
    /\ auth = AuthError(0, "", FALSE)
    /\ \E n \in 0..MaxTail : \E t \in BitSeqs(n) : \E hd \in Heads : bit_list = hd \o t
    /\ packed = NotPacked

\* a call of pack_bits_to_bytes(bit_list)
DoPack ==
    /\ phase = "pack"
    /\ ~packed.done
    /\ LET r == pack_bits_to_bytes(bit_list)
       IN  packed' = [done |-> TRUE, ok |-> r.ok, bytes |-> r.bytes]
    /\ UNCHANGED <<phase, upload, sec, how, posted, auth, bit_list>>

SpecPack == InitPack /\ [][DoPack]_vars

\* ================================================================ properties
\* the value of eight bits read most significant bit first
MsbFirst(bits, first) ==
    bits[first] * 128 + bits[first + 1] * 64 + bits[first + 2] * 32
    + bits[first + 3] * 16 + bits[first + 4] * 8 + bits[first + 5] * 4
    + bits[first + 6] * 2 + bits[first + 7]

\* the blue-channel parity of each of the first 256 pixels
BlueLsbs(px) == [i \in 1..256 |-> px[i][3] % 2]

\* px and qx agree except, at most, in bit 0 of the blue channel of the
\* first 256 pixels
SameButBlueLsb(px, qx) ==
    /\ Len(px) = Len(qx)
    /\ \A i \in 1..Len(px) :
          IF i <= 256
          THEN /\ px[i][1] = qx[i][1]
               /\ px[i][2] = qx[i][2]
               /\ px[i][3] \div 2 = qx[i][3] \div 2
          ELSE px[i] = qx[i]

\* digest bit sequences to embed besides the computed one: all 0, all 1 and
\* the complement of the computed one
DigestSamples(bits) ==
    {bits, [i \in 1..256 |-> 0], [i \in 1..256 |-> 1], [i \in 1..256 |-> 1 - bits[i]]}

Secured == phase # "start" /\ sec.status = 200
Answered == phase = "done" /\ auth.status = 200

\* C1: restoring the embedded grid with the LSBs recorded by the embed loop,
\* after they went through the 32-byte trailer, gives back the original grid
\* pixel for pixel; so does /authenticate on the forwarded buffer.
C1_RoundTrip ==
    /\ Secured =>
          RestoreLoop(sec.new_arr.px,
                      unpack_bytes_to_bits(SplitAppended(sec.body), 256)) = sec.arr.px
    /\ (phase = "secured" /\ sec.status = 200) =>
          \A d \in DigestSamples(sec.digest_bits) :
              RestoreLoop(EmbedLoop(sec.arr.px, d),
                          unpack_bytes_to_bits(
                              pack_bits_to_bytes(RecordedLsbs(sec.arr.px, d)).bytes, 256))
              = sec.arr.px
    /\ (Secured /\ Answered /\ how = "forward") => auth.restored = sec.arr.px

C1_Witness ==
    /\ Secured /\ Answered /\ how = "forward"
    /\ sec.new_arr.px # sec.arr.px
    /\ auth.restored = sec.arr.px

\* C2: a buffer returned by /secure for a grid of at least 256 pixels and
\* forwarded unmodified is answered authentic with 100.00 percent.
C2_ForwardedIsAuthentic ==
    (phase = "done" /\ how = "forward" /\ Len(sec.arr.px) >= 256) =>
        /\ auth.status = 200
        /\ auth.authentic = TRUE
        /\ auth.authentication_percentage = 10000

\* C3: a secured buffer with one non-LSB bit of a pixel beyond the first 256
\* flipped, trailer unchanged, is answered not authentic with a percentage
\* below 100.00 whenever the digest of the restored grid differs from the
\* embedded one.
C3_TamperDetected ==
    (phase = "done" /\ how = "tamper"
        /\ Sha256Digest(ToBytes(image_bytes_to_rgb_array(SplitImage(posted)).arr.px))
           # Sha256Digest(ToBytes(sec.new_arr.px))) =>
        /\ auth.status = 200
        /\ auth.authentic = FALSE
        /\ auth.authentication_percentage < 10000

\* C4: /secure answers ImageTooSmall (400) without decoding and without a body
\* exactly for uploads shorter than 768 bytes, /authenticate exactly for
\* buffers shorter than 800 bytes.
C4_MinimumSize ==
    /\ phase # "start" =>
          IF Len(upload) < 768
          THEN /\ sec.status = 400 /\ sec.error = "ImageTooSmall"
               /\ ~sec.decoded /\ sec.body = <<>>
          ELSE sec.error # "ImageTooSmall" /\ sec.decoded
    /\ phase = "done" =>
          IF Len(posted) < 800
          THEN /\ auth.status = 400 /\ auth.error = "ImageTooSmall"
               /\ ~auth.decoded /\ auth.restored_image_bytes = <<>>
          ELSE auth.error # "ImageTooSmall" /\ auth.decoded

C4_Witness ==
    /\ phase = "done"
    /\ Len(upload) = 768 /\ sec.status = 200
    /\ Len(posted) = 799 /\ auth.status = 400 /\ auth.error = "ImageTooSmall"

\* C5 as claimed: whatever the length, pack_bits_to_bytes returns, without
\* failing, one byte per complete group of 8 bits and ignores the remainder.
C5_TruncatesRemainder ==
    packed.done =>
        /\ packed.ok
        /\ Len(packed.bytes) = Len(bit_list) \div 8
        /\ \A k \in 1..Len(packed.bytes) :
              packed.bytes[k] = MsbFirst(bit_list, 8 * (k - 1) + 1)

\* C5 as the code has it: pack_bits_to_bytes returns the MSB-first bytes, one
\* per 8 bits, exactly when the length is a multiple of 8; with a remainder
\* the incomplete last group raises IndexError and nothing is returned.
C5_FailsOnRemainder ==
    packed.done =>
        /\ packed.ok <=> (Len(bit_list) % 8 = 0)
        /\ packed.ok =>
              /\ Len(packed.bytes) = Len(bit_list) \div 8
              /\ \A k \in 1..Len(packed.bytes) :
                    packed.bytes[k] = MsbFirst(bit_list, 8 * (k - 1) + 1)
        /\ ~packed.ok => packed.bytes = <<>>

C5_Witness ==
    /\ packed.done
    /\ Len(bit_list) = 17
    /\ ~packed.ok

\* C6: in every result of /authenticate, authentic holds exactly when the 256
\* computed bits equal the 256 embedded bits position by position, and exactly
\* when the reported percentage is 100.00.
C6_ExactAndPercentage ==
    Answered =>
        /\ Len(auth.computed_bits) = 256 /\ Len(auth.embedded_bits) = 256
        /\ auth.authentic <=>
              \A i \in 1..256 : auth.computed_bits[i] = auth.embedded_bits[i]
        /\ auth.authentic <=> (auth.authentication_percentage = 10000)

\* one bit short of a full match: 99.61 percent, not authentic
C6_Witness ==
    /\ Answered
    /\ auth.match_count = 255
    /\ auth.authentication_percentage = 9961
    /\ ~auth.authentic

\* C7: the buffer returned by /secure is the re-encoded modified image followed
\* by exactly 32 bytes, the MSB-first packing of the original LSBs of the first
\* 256 pixels, which the split and unpack of /authenticate recover.
C7_Trailer ==
    Secured =>
        /\ Len(sec.body) = sec.image_len + 32
        /\ SplitImage(sec.body) = rgb_array_to_image_bytes(sec.new_arr, sec.fmt)
        /\ Len(SplitAppended(sec.body)) = 32
        /\ \A k \in 1..32 :
              SplitAppended(sec.body)[k] = MsbFirst(BlueLsbs(sec.arr.px), 8 * (k - 1) + 1)
        /\ unpack_bytes_to_bits(SplitAppended(sec.body), 256) = BlueLsbs(sec.arr.px)

\* a trailer whose first byte reads differently from either end
C7_Witness ==
    /\ Secured
    /\ SplitAppended(sec.body)[1] = 85
    /\ BlueLsbs(sec.arr.px)[2] = 1

\* C8: the embed loop and the restore loop change at most bit 0 of the blue
\* channel of the first 256 pixels; the shape is kept.
C8_Frame ==
    /\ Secured =>
          /\ SameButBlueLsb(sec.arr.px, sec.new_arr.px)
          /\ sec.new_arr.h = sec.arr.h /\ sec.new_arr.w = sec.arr.w
    /\ (phase = "secured" /\ sec.status = 200) =>
          \A d \in DigestSamples(sec.digest_bits) :
              SameButBlueLsb(sec.arr.px, EmbedLoop(sec.arr.px, d))
    /\ Answered => SameButBlueLsb(auth.flat, auth.restored)

\* a bit 1 embedded into a blue channel of 255 and the restore changing pixels
C8_Witness ==
    /\ Secured /\ Answered
    /\ Len(sec.arr.px) > 256
    /\ \E i \in 1..256 : sec.arr.px[i][3] = 254 /\ sec.new_arr.px[i][3] = 255
    /\ auth.restored # auth.flat

\* C9: an upload that passes the byte-length check and decodes has at least
\* 256 pixels, and the request ends in a declared error or a complete result.
C9_SizeCheckGuardsLoops ==
    /\ (phase # "start" /\ Len(upload) >= 768 /\ Decodable(upload)) =>
          /\ Len(image_bytes_to_rgb_array(upload).arr.px) >= 256
          /\ sec.status \in {200, 400}
    /\ (phase = "done" /\ Len(posted) >= 800 /\ Decodable(SplitImage(posted))) =>
          /\ Len(image_bytes_to_rgb_array(SplitImage(posted)).arr.px) >= 256
          /\ auth.status \in {200, 400}

\* C10: a buffer in which a pixel, the embedded LSBs and the trailer were
\* changed together is answered authentic with 100.00 percent although the
\* restored grid is not the grid that was secured.
C10_ForgeryAccepted ==
    (phase = "done" /\ how = "forge") =>
        /\ auth.status = 200
        /\ auth.authentic
        /\ auth.authentication_percentage = 10000
        /\ auth.restored # sec.arr.px
        /\ SplitAppended(posted) # SplitAppended(sec.body)
           \/ auth.embedded_bits # sec.digest_bits

C10_Witness ==
    /\ phase = "done" /\ how = "forge"
    /\ auth.authentic
    /\ auth.authentication_percentage = 10000
    /\ auth.restored # sec.arr.px
    /\ auth.embedded_bits # sec.digest_bits

====
